---- MODULE Spec2Model ----
(***************************************************************************)
(* Model of the plant-monitor control loop of src/main/twai_rx_main.c:     *)
(* app_main's while(1) loop and the functions it calls, one action per     *)
(* call, in the order of the loop body.  Time is the value of              *)
(* esp_timer_get_time() in microseconds; it advances while a blocking      *)
(* HTTP call runs and during vTaskDelay.                                   *)
(***************************************************************************)
EXTENDS Integers, Sequences, FiniteSets, TLC

(* ------------------------------ bounds --------------------------------- *)
\* Granularity of the modelled clock, in microseconds.
Step == 500000
\* The clock stops advancing after MaxTicks steps (PumpTicks and StallTicks
\* in the specifications of the pump's timing).
MaxTicks == 8
PumpTicks == 24
OffTicks == 42
StallTicks == 44
\* Longest vTaskDelay / blocking HTTP call, in clock steps.
MaxAdvance == 2

(* ------------------------- program constants --------------------------- *)
PUMP_PIN == 7
LIGHT_PIN == 9
ADA_TIME_LIMIT == 1000000
PUMP_COOLDOWN == 1000000
PUMP_RUN_TIME == 10000000
PULL_INTERVAL == 10000000
LIGHT_OFF_MARGIN == 20
SENSOR_FRAME_ID == 257
SENSOR_FRAME_DLC == 8

VARIABLES
    now,                  \* esp_timer_get_time()
    pc,                   \* position in the body of app_main's loop
    current_time,         \* app_main: current_time
    current_sensor_data,  \* app_main: current_sensor_data
    current_thresholds,   \* app_main: current_thresholds
    is_pump_active,       \* app_main: is_pump_active
    is_light_active,      \* app_main: is_light_active
    last_adafruit_post,   \* app_main: last_adafruit_post
    pump_start_time,      \* process_sensor_data: static
    cooldown_start_time,  \* process_sensor_data: static
    is_cooldown,          \* process_sensor_data: static
    last_pump_state,      \* update_hardware_actuators: static
    last_light_state,     \* update_hardware_actuators: static
    last_pull_time,       \* pull_adafruit_thresholds: static
    gpio_level,           \* output level of PUMP_PIN and LIGHT_PIN
    gpio_writes,          \* gpio_set_level calls made so far in this pass of the loop
    last_call,            \* arguments of the last update_hardware_actuators call
    pump_stop_time,       \* when process_sensor_data last turned the pump off (0: never)
    io_event              \* what the last step did on the network or the bus

vars == <<now, pc, current_time, current_sensor_data, current_thresholds,
          is_pump_active, is_light_active, last_adafruit_post, pump_start_time,
          cooldown_start_time, is_cooldown, last_pump_state, last_light_state,
          last_pull_time, gpio_level, gpio_writes, last_call, pump_stop_time,
          io_event>>


(* ------------------------- process_sensor_data ------------------------- *)
\* The state process_sensor_data reads and writes: the two flags it gets by
\* pointer and its three statics.
EngineState ==
    [pump_state |-> is_pump_active, light_state |-> is_light_active,
     pump_start_time |-> pump_start_time,
     cooldown_start_time |-> cooldown_start_time, is_cooldown |-> is_cooldown]

\* SystemOff forgetting the light.
SystemOff_PumpOnly(st) ==
    [st EXCEPT !.pump_state = FALSE]

\* SystemOff also ending a cooldown.
SystemOff_ClearsCooldown(st) ==
    [st EXCEPT !.pump_state = FALSE, !.light_state = FALSE, !.is_cooldown = FALSE]

\* thresh->on_off_toggle == 0: both outputs off, statics untouched.
SystemOff(st) ==
    [st EXCEPT !.pump_state = FALSE, !.light_state = FALSE]

\* LightControl switching off at the upper edge of the dead band already.
LightControl_OffAtEdge(data, st, thresh) ==
    IF data.light_level < thresh.light_intensity
    THEN [st EXCEPT !.light_state = TRUE]
    ELSE IF data.light_level >= thresh.light_intensity + LIGHT_OFF_MARGIN
         THEN [st EXCEPT !.light_state = FALSE]
         ELSE st

\* The light: on below the threshold, off above threshold + 20, else kept.
LightControl(data, st, thresh) ==
    IF data.light_level < thresh.light_intensity
    THEN [st EXCEPT !.light_state = TRUE]
    ELSE IF data.light_level > thresh.light_intensity + LIGHT_OFF_MARGIN
         THEN [st EXCEPT !.light_state = FALSE]
         ELSE st

\* PumpStart not asking for water in the tank.
PumpStart_NoWaterCheck(data, st, thresh, t) ==
    IF st.pump_state = FALSE /\ st.is_cooldown = FALSE
    THEN IF data.moisture < thresh.moisture
         THEN [st EXCEPT !.pump_state = TRUE, !.pump_start_time = t]
         ELSE st
    ELSE st

\* PumpStart not looking at the cooldown.
PumpStart_IgnoresCooldown(data, st, thresh, t) ==
    IF st.pump_state = FALSE
    THEN IF data.moisture < thresh.moisture /\ data.water_level = TRUE
         THEN [st EXCEPT !.pump_state = TRUE, !.pump_start_time = t]
         ELSE st
    ELSE st

\* PumpStart not recording when the pump was started.
PumpStart_NoStartTime(data, st, thresh, t) ==
    IF st.pump_state = FALSE /\ st.is_cooldown = FALSE
    THEN IF data.moisture < thresh.moisture /\ data.water_level = TRUE
         THEN [st EXCEPT !.pump_state = TRUE]
         ELSE st
    ELSE st

\* PumpStart also stopping a running pump when the soil is wet or the tank
\* is empty.
PumpStart_FollowsSensors(data, st, thresh, t) ==
    IF data.moisture < thresh.moisture /\ data.water_level = TRUE
    THEN IF st.pump_state = FALSE /\ st.is_cooldown = FALSE
         THEN [st EXCEPT !.pump_state = TRUE, !.pump_start_time = t]
         ELSE st
    ELSE [st EXCEPT !.pump_state = FALSE]

\* The pump is started when it is off, not cooling down, the soil is dry
\* and the tank holds water.
PumpStart(data, st, thresh, t) ==
    IF st.pump_state = FALSE /\ st.is_cooldown = FALSE
    THEN IF data.moisture < thresh.moisture /\ data.water_level = TRUE
         THEN [st EXCEPT !.pump_state = TRUE, !.pump_start_time = t]
         ELSE st
    ELSE st

\* PumpRunTimer stopping the pump only after more than the run time.
PumpRunTimer_Late(st, t) ==
    IF st.pump_state = TRUE
    THEN IF t - st.pump_start_time > PUMP_RUN_TIME
         THEN [st EXCEPT !.pump_state = FALSE, !.is_cooldown = TRUE,
                         !.cooldown_start_time = t]
         ELSE st
    ELSE st

\* PumpRunTimer starting the cooldown and leaving the pump on.
PumpRunTimer_StaysOn(st, t) ==
    IF st.pump_state = TRUE
    THEN IF t - st.pump_start_time >= PUMP_RUN_TIME
         THEN [st EXCEPT !.is_cooldown = TRUE, !.cooldown_start_time = t]
         ELSE st
    ELSE st

\* PumpRunTimer never stopping the pump.
PumpRunTimer_Never(st, t) == st

\* A running pump is stopped after the run time and the cooldown starts.
\* (The C comparison is unsigned, 10000000ULL; the difference is never
\* negative because esp_timer_get_time() does not go back.)
PumpRunTimer(st, t) ==
    IF st.pump_state = TRUE
    THEN IF t - st.pump_start_time >= PUMP_RUN_TIME
         THEN [st EXCEPT !.pump_state = FALSE, !.is_cooldown = TRUE,
                         !.cooldown_start_time = t]
         ELSE st
    ELSE st

\* CooldownTimer never ending the cooldown.
CooldownTimer_Stuck(st, t) == st

\* The cooldown ends after PUMP_COOLDOWN.
CooldownTimer(st, t) ==
    IF st.is_cooldown = TRUE
    THEN IF t - st.cooldown_start_time >= PUMP_COOLDOWN
         THEN [st EXCEPT !.is_cooldown = FALSE]
         ELSE st
    ELSE st

\* process_sensor_data acting on a snapshot that was never filled.
process_sensor_data_NullData(data, st, thresh, t) ==
    IF thresh.on_off_toggle = 0 THEN SystemOff(st)
    ELSE CooldownTimer(
             PumpRunTimer(
                 PumpStart(data, LightControl(data, st, thresh), thresh, t), t), t)

\* process_sensor_data(data, pump_state, light_state, thresh) called when
\* esp_timer_get_time() is t.
process_sensor_data(data, st, thresh, t) ==
    IF data.raw_id = 0 THEN st
    ELSE IF thresh.on_off_toggle = 0 THEN SystemOff(st)
    ELSE CooldownTimer(
             PumpRunTimer(
                 PumpStart(data, LightControl(data, st, thresh), thresh, t), t), t)

(* ---------------------- update_hardware_actuators ---------------------- *)
\* ChannelWrites driving the pin only when the channel is switched on.
ChannelWrites_OnOnly(pin, state, last) ==
    IF state # last /\ state THEN <<[pin |-> pin, level |-> 1]>>
    ELSE <<>>

\* One channel of update_hardware_actuators: the gpio_set_level calls it
\* makes for a new state, given the state it remembers.
ChannelWrites(pin, state, last) ==
    IF state # last THEN <<[pin |-> pin, level |-> IF state THEN 1 ELSE 0]>>
    ELSE <<>>

\* ChannelLast never remembering the new state.
ChannelLast_Stale(state, last) == last

\* The remembered state of a channel after the call.
ChannelLast(state, last) ==
    IF state # last THEN state ELSE last

\* The pin levels after a sequence of gpio_set_level calls.
RECURSIVE ApplyWrites(_, _)
ApplyWrites(levels, ws) ==
    IF ws = <<>> THEN levels
    ELSE ApplyWrites([levels EXCEPT ![Head(ws).pin] = Head(ws).level], Tail(ws))

(* ------------------------ can_driver_read_sensor ----------------------- *)
\* The data bytes of a frame carrying a light level and a moisture value,
\* both big-endian 16-bit; temperature and humidity bytes are 0 (they are
\* only printed and published, no decision reads them).
FrameData(light, moist) ==
    <<0, 0, light \div 256, light % 256, 0, 0, moist \div 256, moist % 256>>

\* The outcomes of twai_receive(&rx_msg, 0): nothing pending, or a message.
NoMessage == [ret |-> "ESP_ERR_TIMEOUT"]

Messages ==
    {[ret |-> "ESP_OK", identifier |-> SENSOR_FRAME_ID,
      data_length_code |-> SENSOR_FRAME_DLC, data |-> FrameData(l, m)] :
        l \in {50, 90, 110, 111}, m \in {50, 100, 300}}
    \cup {[ret |-> "ESP_OK", identifier |-> SENSOR_FRAME_ID + 1,
           data_length_code |-> SENSOR_FRAME_DLC, data |-> FrameData(50, 50)],
          [ret |-> "ESP_OK", identifier |-> SENSOR_FRAME_ID,
           data_length_code |-> SENSOR_FRAME_DLC - 1, data |-> FrameData(50, 50)]}

\* Whether can_driver_read_sensor returns true for the outcome rx.
FrameAccepted(rx) ==
    /\ rx.ret = "ESP_OK"
    /\ rx.identifier = SENSOR_FRAME_ID
    /\ rx.data_length_code >= SENSOR_FRAME_DLC

\* out_data after can_driver_read_sensor decoded rx (data[] is 1-based here).
DecodeFrame(out_data, rx) ==
    [out_data EXCEPT !.light_level = (rx.data[3] * 256 + rx.data[4]) % 65536,
                     !.moisture = (rx.data[7] * 256 + rx.data[8]) % 65536,
                     !.raw_id = rx.identifier]

(* ----------------------- pull_adafruit_thresholds ---------------------- *)
\* The response body is a sequence of feed objects in the order they appear
\* in the text; each has a key and either a last_value string (a tuple of
\* characters) or none.
NoValue == <<"n", "u", "l", "l">>

Feed(k, v) == [key |-> k, has_last_value |-> TRUE, last_value |-> v]

FeedWithoutValue(k) == [key |-> k, has_last_value |-> FALSE, last_value |-> NoValue]

DigitValue(c) ==
    CASE c = "0" -> 0 [] c = "1" -> 1 [] c = "2" -> 2 [] c = "3" -> 3
      [] c = "4" -> 4 [] c = "5" -> 5 [] c = "6" -> 6 [] c = "7" -> 7
      [] c = "8" -> 8 [] c = "9" -> 9 [] OTHER -> -1

\* atoi's digit loop: the value of the leading digits of s after acc.
RECURSIVE AtoiDigits(_, _)
AtoiDigits(s, acc) ==
    IF s = <<>> \/ DigitValue(Head(s)) < 0 THEN acc
    ELSE AtoiDigits(Tail(s), acc * 10 + DigitValue(Head(s)))

\* atoi(s): an optional sign, then the leading digits; 0 if there are none.
atoi(s) ==
    IF s # <<>> /\ Head(s) = "-" THEN 0 - AtoiDigits(Tail(s), 0)
    ELSE IF s # <<>> /\ Head(s) = "+" THEN AtoiDigits(Tail(s), 0)
    ELSE AtoiDigits(s, 0)

\* strstr(buffer, "\"<key>\""): the first feed with the key, 0 if none.
FindKey(buffer, key) ==
    IF \E i \in 1..Len(buffer) : buffer[i].key = key
    THEN CHOOSE i \in 1..Len(buffer) :
             /\ buffer[i].key = key
             /\ \A j \in 1..(i - 1) : buffer[j].key # key
    ELSE 0

\* strstr(ptr, "\"last_value\":\""): the first last_value at or after feed
\* from, whichever feed it belongs to; 0 if none (or if from is 0).
FindLastValue(buffer, from) ==
    IF from # 0 /\ \E i \in from..Len(buffer) : buffer[i].has_last_value
    THEN CHOOSE i \in from..Len(buffer) :
             /\ buffer[i].has_last_value
             /\ \A j \in from..(i - 1) : ~buffer[j].has_last_value
    ELSE 0

\* The text the parser reads for a key: position of its value, 0 if none.
ValueFor(buffer, key) == FindLastValue(buffer, FindKey(buffer, key))

\* strncmp(val_ptr, "ON", 2) == 0 || strncmp(val_ptr, "1", 1) == 0
ToggleValue(val) ==
    IF \/ (Len(val) >= 2 /\ val[1] = "O" /\ val[2] = "N")
       \/ (Len(val) >= 1 /\ val[1] = "1")
    THEN 1 ELSE 0

\* thresh after the body of "if (read_len > 0)" parsed buffer.
ParseThresholds(thresh, buffer) ==
    LET li == ValueFor(buffer, "light-intensity")
        mo == ValueFor(buffer, "moisture")
        te == ValueFor(buffer, "temperature")
        tg == ValueFor(buffer, "on-off-toggle")
    IN [light_intensity |-> IF li # 0 THEN atoi(buffer[li].last_value)
                            ELSE thresh.light_intensity,
        moisture |-> IF mo # 0 THEN atoi(buffer[mo].last_value)
                     ELSE thresh.moisture,
        temperature |-> IF te # 0 THEN atoi(buffer[te].last_value)
                        ELSE thresh.temperature,
        on_off_toggle |-> IF tg # 0 THEN ToggleValue(buffer[tg].last_value)
                          ELSE thresh.on_off_toggle]

\* MergeResponse clearing the thresholds when the connection cannot be opened.
MergeResponse_ClearsOnFailure(thresh, resp) ==
    IF resp.err = "ESP_OK"
    THEN IF Len(resp.buffer) > 0 THEN ParseThresholds(thresh, resp.buffer)
         ELSE thresh
    ELSE [light_intensity |-> 0, moisture |-> 0, temperature |-> 0,
          on_off_toggle |-> 0]

\* MergeResponse taking an empty read for a switched-off dashboard.
MergeResponse_OffOnEmptyRead(thresh, resp) ==
    IF resp.err = "ESP_OK"
    THEN IF Len(resp.buffer) > 0 THEN ParseThresholds(thresh, resp.buffer)
         ELSE [thresh EXCEPT !.on_off_toggle = 0]
    ELSE thresh

\* thresh after the HTTP exchange: err is esp_http_client_open's result and
\* buffer what esp_http_client_read delivered (empty: read_len <= 0).
MergeResponse(thresh, resp) ==
    IF resp.err = "ESP_OK"
    THEN IF Len(resp.buffer) > 0 THEN ParseThresholds(thresh, resp.buffer)
         ELSE thresh
    ELSE thresh

\* PullTooEarly without the "last_pull_time != 0" test.
PullTooEarly_NoFirstCall(last, t) ==
    t - last < PULL_INTERVAL

\* Whether pull_adafruit_thresholds returns early at time t.
PullTooEarly(last, t) ==
    last # 0 /\ t - last < PULL_INTERVAL

\* The HTTP exchanges the dashboard can answer a pull with.
Responses ==
    {[err |-> "ESP_FAIL", buffer |-> <<>>],
     [err |-> "ESP_OK", buffer |-> <<>>],
     [err |-> "ESP_OK", buffer |-> <<Feed("on-off-toggle", <<"O", "F", "F">>)>>],
     [err |-> "ESP_OK", buffer |-> <<Feed("on-off-toggle", <<"O", "N">>)>>],
     [err |-> "ESP_OK", buffer |-> <<Feed("light-intensity", <<"7", "0">>),
                                     Feed("moisture", <<"6", "0">>)>>],
     [err |-> "ESP_OK", buffer |-> <<Feed("moisture", <<"a", "b", "c">>)>>],
     [err |-> "ESP_OK", buffer |-> <<FeedWithoutValue("light-intensity"),
                                     Feed("temperature", <<"3", "0">>)>>]}

(* ------------------------------ app_main ------------------------------- *)
Init ==
    /\ now = Step
    /\ pc = "pull"
    /\ current_time = 0
    /\ current_sensor_data =
           [light_level |-> 0, moisture |-> 0, water_level |-> FALSE, raw_id |-> 0]
    /\ current_thresholds =
           [light_intensity |-> 90, moisture |-> 100, temperature |-> 25,
            on_off_toggle |-> 1]
    /\ is_pump_active = FALSE
    /\ is_light_active = FALSE
    /\ last_adafruit_post = 0
    /\ pump_start_time = 0
    /\ cooldown_start_time = 0
    /\ is_cooldown = FALSE
    /\ last_pump_state = FALSE
    /\ last_light_state = FALSE
    /\ last_pull_time = 0
    /\ gpio_level = [p \in {PUMP_PIN, LIGHT_PIN} |-> 0]
    /\ gpio_writes = <<>>
    /\ last_call = [pump_state |-> FALSE, light_state |-> FALSE]
    /\ pump_stop_time = 0
    /\ io_event = [kind |-> "none"]

\* current_time = esp_timer_get_time(); pull_adafruit_thresholds(&current_thresholds)
\* returning early.
PullSkipped ==
    /\ pc = "pull"
    /\ PullTooEarly(last_pull_time, now)
    /\ io_event' = [kind |-> "skip"]
    /\ current_time' = now
    /\ gpio_writes' = <<>>
    /\ pc' = "read"
    /\ UNCHANGED <<now, current_sensor_data, current_thresholds, is_pump_active,
                   is_light_active, last_adafruit_post, pump_start_time,
                   cooldown_start_time, is_cooldown, last_pump_state,
                   last_light_state, last_pull_time, gpio_level, last_call,
                   pump_stop_time>>

\* current_time = esp_timer_get_time(); pull_adafruit_thresholds(&current_thresholds)
\* doing the HTTP exchange, which is answered by one of Rs and takes one of Ds.
PullFetched(Rs, Ds) ==
    /\ pc = "pull"
    /\ ~PullTooEarly(last_pull_time, now)
    /\ \E resp \in Rs, d \in Ds :
           /\ current_thresholds' = MergeResponse(current_thresholds, resp)
           /\ now' = now + d
           /\ last_pull_time' = now + d
           /\ io_event' = [kind |-> "fetch", resp |-> resp]
    /\ current_time' = now
    /\ gpio_writes' = <<>>
    /\ pc' = "read"
    /\ UNCHANGED <<current_sensor_data, is_pump_active, is_light_active,
                   last_adafruit_post, pump_start_time, cooldown_start_time,
                   is_cooldown, last_pump_state, last_light_state, gpio_level,
                   last_call,
                   pump_stop_time>>

\* PublishDue letting every reading through.
PublishDue_Always(t, last) == TRUE

\* Whether app_main's limiter lets a reading decoded at loop time t be
\* published: current_time - last_adafruit_post >= ADA_TIME_LIMIT.
PublishDue(t, last) == t - last >= ADA_TIME_LIMIT

\* can_driver_read_sensor returned false: no message, or one it rejects.
NoReading(Ms) ==
    /\ pc = "read"
    /\ \E rx \in Ms \cup {NoMessage} : ~FrameAccepted(rx)
    /\ io_event' = [kind |-> "no reading"]
    /\ pc' = "process"
    /\ UNCHANGED <<now, current_time, current_sensor_data, current_thresholds,
                   is_pump_active, is_light_active, last_adafruit_post,
                   pump_start_time, cooldown_start_time, is_cooldown,
                   last_pump_state, last_light_state, last_pull_time, gpio_level,
                   gpio_writes, last_call,
                   pump_stop_time>>

\* can_driver_read_sensor returned true, the water level was read, and the
\* publish limiter did not let the reading through.
ReadingKept(Ms) ==
    /\ pc = "read"
    /\ \E rx \in Ms, level \in BOOLEAN :
           /\ FrameAccepted(rx)
           /\ current_sensor_data' =
                  [DecodeFrame(current_sensor_data, rx) EXCEPT !.water_level = level]
    /\ ~PublishDue(current_time, last_adafruit_post)
    /\ io_event' = [kind |-> "reading"]
    /\ pc' = "process"
    /\ UNCHANGED <<now, current_time, current_thresholds, is_pump_active,
                   is_light_active, last_adafruit_post, pump_start_time,
                   cooldown_start_time, is_cooldown, last_pump_state,
                   last_light_state, last_pull_time, gpio_level, gpio_writes,
                   last_call,
                   pump_stop_time>>

\* can_driver_read_sensor returned true, the water level was read, and the
\* reading was published, which takes one of Ds.
ReadingPublished(Ms, Ds) ==
    /\ pc = "read"
    /\ \E rx \in Ms, level \in BOOLEAN :
           /\ FrameAccepted(rx)
           /\ current_sensor_data' =
                  [DecodeFrame(current_sensor_data, rx) EXCEPT !.water_level = level]
    /\ PublishDue(current_time, last_adafruit_post)
    /\ \E d \in Ds, ok \in BOOLEAN :
           /\ now' = now + d
           /\ io_event' = [kind |-> "publish", ok |-> ok]
    /\ last_adafruit_post' = current_time
    /\ pc' = "process"
    /\ UNCHANGED <<current_time, current_thresholds, is_pump_active,
                   is_light_active, pump_start_time, cooldown_start_time,
                   is_cooldown, last_pump_state, last_light_state,
                   last_pull_time, gpio_level, gpio_writes, last_call,
                   pump_stop_time>>

\* process_sensor_data(&current_sensor_data, &is_pump_active, &is_light_active,
\*                     &current_thresholds)
Process ==
    /\ pc = "process"
    /\ LET st == process_sensor_data(current_sensor_data, EngineState,
                                     current_thresholds, now)
       IN /\ is_pump_active' = st.pump_state
          /\ is_light_active' = st.light_state
          /\ pump_start_time' = st.pump_start_time
          /\ cooldown_start_time' = st.cooldown_start_time
          /\ is_cooldown' = st.is_cooldown
          /\ pump_stop_time' = IF is_pump_active /\ ~st.pump_state THEN now
                                ELSE pump_stop_time
    /\ io_event' = [kind |-> "none"]
    /\ pc' = "actuate"
    /\ UNCHANGED <<now, current_time, current_sensor_data, current_thresholds,
                   last_adafruit_post, last_pump_state, last_light_state,
                   last_pull_time, gpio_level, gpio_writes, last_call>>

\* update_hardware_actuators(is_pump_active, is_light_active)
Actuate ==
    /\ pc = "actuate"
    /\ LET ws == ChannelWrites(PUMP_PIN, is_pump_active, last_pump_state)
                 \o ChannelWrites(LIGHT_PIN, is_light_active, last_light_state)
       IN /\ gpio_writes' = ws
          /\ gpio_level' = ApplyWrites(gpio_level, ws)
    /\ last_pump_state' = ChannelLast(is_pump_active, last_pump_state)
    /\ last_light_state' = ChannelLast(is_light_active, last_light_state)
    /\ last_call' = [pump_state |-> is_pump_active, light_state |-> is_light_active]
    /\ io_event' = [kind |-> "none"]
    /\ pc' = "delay"
    /\ UNCHANGED <<now, current_time, current_sensor_data, current_thresholds,
                   is_pump_active, is_light_active, last_adafruit_post,
                   pump_start_time, cooldown_start_time, is_cooldown,
                   last_pull_time,
                   pump_stop_time>>

\* vTaskDelay(pdMS_TO_TICKS(10)), and the time the rest of the pass took:
\* one of Ds.
Delay(Ds) ==
    /\ pc = "delay"
    /\ \E d \in Ds : now' = now + d
    /\ io_event' = [kind |-> "none"]
    /\ pc' = "pull"
    /\ UNCHANGED <<current_time, current_sensor_data, current_thresholds,
                   is_pump_active, is_light_active, last_adafruit_post,
                   pump_start_time, cooldown_start_time, is_cooldown,
                   last_pump_state, last_light_state, last_pull_time, gpio_level,
                   gpio_writes, last_call,
                   pump_stop_time>>

(* --------------------------- specifications ---------------------------- *)
\* Durations of at most n clock steps that stay within h clock steps.
Within(n, h) == {d \in {k * Step : k \in 0..n} : now + d <= h * Step}

\* The whole loop over a short horizon, with every response and message:
\* an HTTP call takes up to a clock step, a pass of the loop up to MaxAdvance.
Next ==
    \/ PullSkipped
    \/ PullFetched(Responses, Within(1, MaxTicks))
    \/ NoReading(Messages)
    \/ ReadingKept(Messages)
    \/ ReadingPublished(Messages, Within(1, MaxTicks))
    \/ Process
    \/ Actuate
    \/ Delay(Within(MaxAdvance, MaxTicks))

Spec == Init /\ [][Next]_vars

\* The pump's timing over a horizon longer than a run and a cooldown: the
\* dashboard only switches the system on and off and the light level never
\* rises above the dead band.
PumpResponses ==
    {r \in Responses : r.err = "ESP_OK" =>
         \A i \in 1..Len(r.buffer) : r.buffer[i].key = "on-off-toggle"}

PumpMessages ==
    {m \in Messages : FrameAccepted(m) => (m.data[3] * 256 + m.data[4] \in {50, 90})}

NextPump ==
    \/ PullSkipped
    \/ PullFetched(PumpResponses, Within(1, PumpTicks))
    \/ NoReading(PumpMessages)
    \/ ReadingKept(PumpMessages)
    \/ ReadingPublished(PumpMessages, Within(1, PumpTicks))
    \/ Process
    \/ Actuate
    \/ Delay(Within(MaxAdvance, PumpTicks))

SpecPump == Init /\ [][NextPump]_vars

\* The same with the light level in the dead band and HTTP calls that take
\* less than a clock step, and a loop that never stops: app_main's
\* while (1) has no exit and every call in it returns.
LiveMessages ==
    {m \in Messages : FrameAccepted(m) => (m.data[3] * 256 + m.data[4] = 90)}

NextLive ==
    \/ PullSkipped
    \/ PullFetched(PumpResponses, Within(0, PumpTicks))
    \/ NoReading(LiveMessages)
    \/ ReadingKept(LiveMessages)
    \/ ReadingPublished(LiveMessages, Within(0, PumpTicks))
    \/ Process
    \/ Actuate
    \/ Delay(Within(1, PumpTicks))

SpecPumpLive == Init /\ [][NextLive]_vars /\ WF_vars(NextLive)

\* The pump's timing over a horizon of two pull intervals, on a clock of
\* whole seconds, where an HTTP call can block for as long as a pull interval.
Stalls == {d \in {0, PULL_INTERVAL} : now + d <= StallTicks * Step}

NextStall ==
    \/ PullSkipped
    \/ PullFetched(PumpResponses, Stalls)
    \/ NoReading(PumpMessages)
    \/ ReadingKept(PumpMessages)
    \/ ReadingPublished(PumpMessages, Stalls)
    \/ Process
    \/ Actuate
    \/ Delay({d \in {0, 2 * Step} : now + d <= StallTicks * Step})

SpecStall == Init /\ [][NextStall]_vars

(* ------------------------------- claims -------------------------------- *)
\* The never-ending loop again, with a clock that keeps advancing: every
\* pass takes time (vTaskDelay blocks for at least a tick), so the clock
\* does not stand still for ever while there is a later time to reach.
Tick == Delay({d \in {Step} : now + d <= PumpTicks * Step})

SpecClockLive ==
    Init /\ [][NextLive]_vars /\ WF_vars(NextLive) /\ SF_vars(Tick)

\* A dashboard that answers every pull with the switch, dry soil, and a
\* horizon of two pull intervals on the half-second clock: long enough for
\* a run, a switch-off during the cooldown and the switch-on after it.
OffResponses ==
    {r \in PumpResponses : r.err = "ESP_OK" /\ Len(r.buffer) > 0}

OffMessages ==
    {m \in LiveMessages : FrameAccepted(m) => (m.data[7] * 256 + m.data[8] = 50)}

NextOff ==
    \/ PullSkipped
    \/ PullFetched(OffResponses, Within(0, OffTicks))
    \/ NoReading(OffMessages)
    \/ ReadingKept(OffMessages)
    \/ ReadingPublished(OffMessages, Within(1, OffTicks))
    \/ Process
    \/ Actuate
    \/ Delay(Within(1, OffTicks))

SpecOff == Init /\ [][NextOff]_vars

\* A step that is a call of process_sensor_data.
ProcessStep == pc = "process" /\ pc' = "actuate"

\* A step that is a call of update_hardware_actuators.
ActuateStep == pc = "actuate" /\ pc' = "delay"

SystemEnabled == current_thresholds.on_off_toggle # 0

SoilDry == current_sensor_data.moisture < current_thresholds.moisture

\* C1: after process_sensor_data ran with on_off_toggle false, the pump
\* command and the light command are both false, whatever the snapshot and
\* whatever the pump, light and cooldown state before the call.
C1_DisabledForcesOff ==
    (pc \in {"actuate", "delay"} /\ ~SystemEnabled)
        => (is_pump_active = FALSE /\ is_light_active = FALSE)

\* C1's case: the call found the system switched off while the pump and the
\* light were both on (the outputs still are), and turned both off.
C1_Witness ==
    /\ pc = "actuate"
    /\ ~SystemEnabled
    /\ last_pump_state /\ last_light_state
    /\ ~is_pump_active /\ ~is_light_active

\* C2: the pump goes from inactive to active in a call only if the moisture
\* is below its threshold and the water level is true, the pump was not
\* cooling down, the system is enabled and the snapshot is a real one.
C2_ActivationNeedsDryAndWater ==
    [][(ProcessStep /\ ~is_pump_active /\ is_pump_active')
           => /\ SoilDry
              /\ current_sensor_data.water_level = TRUE
              /\ ~is_cooldown
              /\ SystemEnabled
              /\ current_sensor_data.raw_id # 0]_vars

\* C2's case: dry soil and an empty tank, light too low: the call switched
\* the light on and left the pump off.
C2_Witness ==
    /\ pc = "actuate"
    /\ SystemEnabled
    /\ current_sensor_data.raw_id # 0
    /\ SoilDry
    /\ current_sensor_data.water_level = FALSE
    /\ ~is_cooldown
    /\ is_light_active
    /\ ~is_pump_active

\* The light state the hysteresis asks for, given the state before.
HysteresisLight(level, threshold, before) ==
    IF level < threshold THEN TRUE
    ELSE IF level > threshold + 20 THEN FALSE
    ELSE before

\* C8: a call with the system enabled and a real snapshot sets the light
\* on below light_intensity, off above light_intensity + 20 and keeps it in
\* between; a second call with the same inputs leaves the light as the
\* first left it.
C8_LightHysteresis ==
    [][(ProcessStep /\ SystemEnabled /\ current_sensor_data.raw_id # 0)
           => /\ is_light_active' =
                     HysteresisLight(current_sensor_data.light_level,
                                     current_thresholds.light_intensity,
                                     is_light_active)
              /\ process_sensor_data(current_sensor_data', EngineState',
                                     current_thresholds', now').light_state
                     = is_light_active']_vars

\* C8's case: the light was on and the level sits on the upper edge of the
\* dead band; the call kept it on.
C8_Witness ==
    /\ pc = "actuate"
    /\ SystemEnabled
    /\ current_sensor_data.raw_id # 0
    /\ current_sensor_data.light_level = current_thresholds.light_intensity + 20
    /\ is_light_active

\* C9: a call with raw_id 0 changes neither the pump state, the light state,
\* the pump start time, the cooldown flag nor the cooldown start time,
\* whatever the thresholds.
C9_NullDataIgnored ==
    [][(ProcessStep /\ current_sensor_data.raw_id = 0)
           => UNCHANGED <<is_pump_active, is_light_active, pump_start_time,
                          is_cooldown, cooldown_start_time>>]_vars

\* C9's case: no frame has arrived, thresholds were pulled from the
\* dashboard, and the call left the light off although the zeroed snapshot
\* is below the light threshold.
C9_Witness ==
    /\ pc = "actuate"
    /\ current_sensor_data.raw_id = 0
    /\ current_thresholds.light_intensity = 70
    /\ SystemEnabled
    /\ current_sensor_data.light_level < current_thresholds.light_intensity
    /\ ~is_light_active

\* The writes to one pin among the writes ws.
WritesTo(pin, ws) == SelectSeq(ws, LAMBDA w : w.pin = pin)

\* The writes one channel is due when its value goes from before to after.
DueWrites(pin, before, after) ==
    IF after # before THEN <<[pin |-> pin, level |-> IF after THEN 1 ELSE 0]>>
    ELSE <<>>

\* C10: a call of update_hardware_actuators writes a channel exactly once,
\* with the new value, if the value passed differs from the value passed in
\* the call before (false before the first call), and not at all if it
\* repeats it; so the writes to a channel are as many as its changes.
C10_OneWritePerChange ==
    [][ActuateStep
           => /\ WritesTo(PUMP_PIN, gpio_writes') =
                     DueWrites(PUMP_PIN, last_call.pump_state, is_pump_active)
              /\ WritesTo(LIGHT_PIN, gpio_writes') =
                     DueWrites(LIGHT_PIN, last_call.light_state, is_light_active)
              /\ Len(gpio_writes') = Len(WritesTo(PUMP_PIN, gpio_writes'))
                                     + Len(WritesTo(LIGHT_PIN, gpio_writes'))]_vars

\* C10's case: the pump value changed and the light value, on, repeats the
\* call before: the call wrote the pump pin once and the light pin not at all.
C10_Witness ==
    /\ pc = "delay"
    /\ is_light_active
    /\ is_pump_active
    /\ gpio_writes = <<[pin |-> PUMP_PIN, level |-> 1]>>

\* C3 as claimed: an active pump stays active in every call until the run
\* time has elapsed since it was started, and the call that finds it elapsed
\* turns the pump off and starts the cooldown at the time of that call; the
\* pump goes off in no other way.
C3_Original ==
    [][(ProcessStep /\ is_pump_active)
           => IF now - pump_start_time >= PUMP_RUN_TIME
              THEN /\ is_pump_active' = FALSE
                   /\ is_cooldown' = TRUE
                   /\ cooldown_start_time' = now
              ELSE is_pump_active' = TRUE]_vars

\* C3, amended: with the system enabled an active pump stays active, its
\* start time unchanged, in every call until the first call that finds the
\* run time elapsed, which turns it off and starts the cooldown at its own
\* time; a call with the system disabled turns the pump off however long it
\* has run and starts no cooldown.
C3_RunsUntilExpiryOrDisable ==
    [][(ProcessStep /\ is_pump_active)
           => IF ~SystemEnabled
              THEN /\ is_pump_active' = FALSE
                   /\ UNCHANGED <<is_cooldown, cooldown_start_time>>
              ELSE IF now - pump_start_time >= PUMP_RUN_TIME
                   THEN /\ is_pump_active' = FALSE
                        /\ is_cooldown' = TRUE
                        /\ cooldown_start_time' = now
                   ELSE /\ is_pump_active' = TRUE
                        /\ UNCHANGED pump_start_time]_vars

\* C3's case: the call found the run time elapsed with the system enabled,
\* turned the pump off (the output is still on) and started the cooldown.
C3_Witness ==
    /\ pc = "actuate"
    /\ SystemEnabled
    /\ last_pump_state
    /\ ~is_pump_active
    /\ now - pump_start_time >= PUMP_RUN_TIME
    /\ is_cooldown
    /\ cooldown_start_time = now

\* C4: once a call has turned the pump off, whether the run time elapsed or
\* the system was disabled, no call starts the pump before PUMP_COOLDOWN has
\* elapsed since.
C4_CooldownBetweenRuns ==
    [][(ProcessStep /\ ~is_pump_active /\ is_pump_active' /\ pump_stop_time # 0)
           => now - pump_stop_time >= PUMP_COOLDOWN]_vars

\* C5: a call that finds the cooldown flag set does not start the pump,
\* even with dry soil and water in the tank.
C5_CooldownBlocksStart ==
    [][(ProcessStep /\ is_cooldown) => is_pump_active' = FALSE]_vars

\* C5's case: one clock step before the cooldown is over, with dry soil,
\* water and the system enabled, the call left the pump off.
C5_Witness ==
    /\ pc = "actuate"
    /\ SystemEnabled
    /\ SoilDry
    /\ current_sensor_data.water_level = TRUE
    /\ is_cooldown
    /\ cooldown_start_time < now
    /\ now - cooldown_start_time + Step >= PUMP_COOLDOWN
    /\ now - cooldown_start_time < PUMP_COOLDOWN
    /\ ~is_pump_active

\* C6: the pump is never active while the cooldown flag is set, and every
\* step that makes the pump active starts with the pump inactive and the
\* cooldown flag clear.
C6_ActiveExcludesCooldown ==
    /\ [](~(is_pump_active /\ is_cooldown))
    /\ [][(~is_pump_active /\ is_pump_active') => ~is_cooldown]_vars

\* C6's case: a run ended in a cooldown, the cooldown ended, and this call
\* started the pump again.
C6_Witness ==
    /\ pc = "actuate"
    /\ is_pump_active
    /\ pump_start_time = now
    /\ ~is_cooldown
    /\ cooldown_start_time # 0
    /\ now - cooldown_start_time >= PUMP_COOLDOWN

\* The cooldown has lasted PUMP_COOLDOWN.
CooldownElapsed ==
    is_cooldown /\ now - cooldown_start_time >= PUMP_COOLDOWN

\* The pump has rested after a run and may be started.
Rested ==
    ~is_cooldown /\ ~is_pump_active /\ cooldown_start_time # 0

WetAndDry == SoilDry /\ current_sensor_data.water_level = TRUE

\* C7: while the loop keeps running with the system enabled, once the
\* cooldown has lasted PUMP_COOLDOWN the cooldown flag is eventually
\* cleared, and with the flag clear the pump is eventually started again
\* if the soil stays dry and the tank keeps its water.
C7_EligibleAfterCooldown ==
    /\ (CooldownElapsed /\ SystemEnabled) ~> (~is_cooldown \/ ~SystemEnabled)
    /\ (Rested /\ SystemEnabled /\ WetAndDry)
           ~> (is_pump_active \/ ~SystemEnabled \/ ~WetAndDry)

\* C7's case: a cooldown ran its full time and the pump runs again.
C7_Witness ==
    /\ is_pump_active
    /\ cooldown_start_time # 0
    /\ pump_start_time >= cooldown_start_time + PUMP_COOLDOWN
    /\ SystemEnabled

(* ---------------------- pull_adafruit_thresholds ----------------------- *)
\* A call of pull_adafruit_thresholds.
PullStep == pc = "pull" /\ pc' = "read"

\* The last step was a call of pull_adafruit_thresholds that went to the
\* network.
Fetched == io_event.kind = "fetch"

\* C11: a call of pull_adafruit_thresholds goes to the network exactly when
\* it is the first call (no fetch recorded yet: last_pull_time is 0, and
\* every fetch leaves it non-zero) or at least PULL_INTERVAL has passed
\* since the time recorded for the previous fetch; so two fetches are never
\* closer than PULL_INTERVAL. A fetch records its time whatever the outcome
\* of the exchange, nothing else changes the record, and a call that
\* returns early leaves the thresholds and the record as they were.
C11_RefreshGate ==
    /\ [][PullStep =>
              /\ Fetched' <=> (last_pull_time = 0
                               \/ now - last_pull_time >= PULL_INTERVAL)
              /\ Fetched' => (last_pull_time' = now' /\ last_pull_time' # 0)
              /\ ~Fetched' => UNCHANGED <<current_thresholds, last_pull_time>>]_vars
    /\ [][last_pull_time' # last_pull_time => (PullStep /\ Fetched')]_vars

\* C11's case: a call later than the first has just gone to the network,
\* the connection could not be opened, and the time was recorded all the
\* same.
C11_Witness ==
    /\ pc = "read"
    /\ Fetched
    /\ last_pull_time = now
    /\ io_event.resp.err = "ESP_FAIL"
    /\ current_thresholds.on_off_toggle = 1
    /\ current_time >= Step + PULL_INTERVAL

\* The exchange delivered nothing: esp_http_client_open failed, or the read
\* returned no data.
FetchFailed(resp) == resp.err # "ESP_OK" \/ Len(resp.buffer) = 0

\* C12: a call of pull_adafruit_thresholds whose exchange fails entirely
\* (the connection cannot be opened, or nothing is read) leaves all four
\* fields of the thresholds as they were.
C12_FailedRefreshKeepsThresholds ==
    [][(PullStep /\ Fetched' /\ FetchFailed(io_event'.resp))
           => UNCHANGED current_thresholds]_vars

\* C12's case: an earlier fetch switched the system off, the connection of
\* this one could not be opened, and the system is still off.
C12_Witness ==
    /\ pc = "read"
    /\ Fetched
    /\ io_event.resp.err = "ESP_FAIL"
    /\ current_thresholds.on_off_toggle = 0
    /\ current_time >= Step + PULL_INTERVAL

\* app_main's initial thresholds.
DefaultThresholds ==
    [light_intensity |-> 90, moisture |-> 100, temperature |-> 25,
     on_off_toggle |-> 1]

\* C17: the thresholds are the defaults (90, 100, 25, enabled) at startup and
\* stay so until a fetch that delivers data: only a call of
\* pull_adafruit_thresholds whose connection opened and whose read returned
\* data moves them away from the defaults, however many fetches failed
\* before.
C17_DefaultsUntilFetched ==
    /\ current_thresholds = DefaultThresholds
    /\ [][(current_thresholds = DefaultThresholds
           /\ current_thresholds' # DefaultThresholds)
              => (PullStep /\ Fetched' /\ ~FetchFailed(io_event'.resp))]_vars

\* C17's case: a fetch later than the first has just read nothing, and the
\* thresholds are the defaults.
C17_Witness ==
    /\ pc = "read"
    /\ Fetched
    /\ io_event.resp.err = "ESP_OK"
    /\ FetchFailed(io_event.resp)
    /\ current_thresholds = DefaultThresholds
    /\ current_time >= Step + PULL_INTERVAL

\* The response has a feed with this key, and that feed has a last_value.
FieldProvided(buffer, key) ==
    FindKey(buffer, key) # 0 /\ buffer[FindKey(buffer, key)].has_last_value

\* The last_value of the feed with this key.
FieldText(buffer, key) == buffer[FindKey(buffer, key)].last_value

\* The text is a decimal number.
ParsesAsNumber(val) ==
    Len(val) > 0 /\ \A i \in 1..Len(val) : DigitValue(val[i]) >= 0

\* The text is one of the switch positions.
ParsesAsSwitch(val) ==
    val \in {<<"O", "N">>, <<"O", "F", "F">>, <<"1">>, <<"0">>}

\* A numeric field after a refresh that merges field by field.
NumberAfter(old, buffer, key) ==
    IF FieldProvided(buffer, key) /\ ParsesAsNumber(FieldText(buffer, key))
    THEN atoi(FieldText(buffer, key)) ELSE old

\* The enabled field after a refresh that merges field by field.
SwitchAfter(old, buffer) ==
    IF FieldProvided(buffer, "on-off-toggle")
       /\ ParsesAsSwitch(FieldText(buffer, "on-off-toggle"))
    THEN ToggleValue(FieldText(buffer, "on-off-toggle")) ELSE old

\* C13: a fetch that read data sets each of light_intensity, moisture,
\* temperature and on_off_toggle to the value the response gives for that
\* field if the response has the field with a value that parses, and leaves
\* the field as it was otherwise, whatever the other fields do.
C13_PerFieldMerge ==
    [][(PullStep /\ Fetched' /\ ~FetchFailed(io_event'.resp)) =>
           LET buf == io_event'.resp.buffer
               old == current_thresholds
           IN current_thresholds' =
                  [light_intensity |->
                       NumberAfter(old.light_intensity, buf, "light-intensity"),
                   moisture |-> NumberAfter(old.moisture, buf, "moisture"),
                   temperature |->
                       NumberAfter(old.temperature, buf, "temperature"),
                   on_off_toggle |-> SwitchAfter(old.on_off_toggle, buf)]]_vars

(* ------------------------- publish_all_sensors ------------------------- *)
\* The step of a pass that reads the bus and publishes.
ReadStep == pc = "read" /\ pc' = "process"

\* The last step decoded a new reading.
NewReading == io_event.kind \in {"reading", "publish"}

\* The last step called publish_all_sensors.
Published == io_event.kind = "publish"

\* C14: a pass calls publish_all_sensors exactly when it decoded a new
\* reading and its loop time is at least ADA_TIME_LIMIT after
\* last_adafruit_post; it then sets last_adafruit_post to its loop time,
\* whether the publish succeeded or not, and nothing else changes
\* last_adafruit_post. So nothing is published without a new reading, and
\* the loop times of two publishing passes are at least ADA_TIME_LIMIT
\* apart, also after a publish that failed.
C14_PublishGate ==
    /\ [][ReadStep =>
              /\ Published' <=> (NewReading'
                                 /\ current_time - last_adafruit_post
                                        >= ADA_TIME_LIMIT)
              /\ Published' => last_adafruit_post' = current_time
              /\ ~Published' => UNCHANGED last_adafruit_post]_vars
    /\ [][last_adafruit_post' # last_adafruit_post
              => (ReadStep /\ Published')]_vars

\* C14's case: a pass that started at least twice ADA_TIME_LIMIT after boot
\* decoded a reading and published it, the publish failed, and the loop
\* time is recorded all the same.
C14_Witness ==
    /\ pc = "process"
    /\ Published
    /\ ~io_event.ok
    /\ last_adafruit_post = current_time
    /\ current_time >= 2 * ADA_TIME_LIMIT

(* ------------------------ the pump's run, again ------------------------ *)
\* C16: a call of process_sensor_data that starts the pump (system enabled,
\* real snapshot, pump off and not cooling down, soil dry, water present)
\* does not stop it again: the run timer of the same call reads a run time
\* of 0, and the call ends with the pump active and no cooldown.
C16_NotExpiredWhenStarted ==
    [][(/\ ProcessStep
        /\ SystemEnabled
        /\ current_sensor_data.raw_id # 0
        /\ ~is_pump_active /\ ~is_cooldown
        /\ SoilDry /\ current_sensor_data.water_level = TRUE)
           => /\ is_pump_active'
              /\ ~is_cooldown'
              /\ now' - pump_start_time' = 0]_vars

\* C16's case: the pump was started by this call, at a time of day later
\* than a whole run time, and is on.
C16_Witness ==
    /\ pc = "actuate"
    /\ is_pump_active /\ ~last_pump_state
    /\ ~is_cooldown
    /\ pump_start_time = now
    /\ now >= PUMP_RUN_TIME
    /\ cooldown_start_time = 0

\* C20: a running pump does not follow the sensors. A call that finds the
\* system enabled and less than the run time elapsed leaves the pump
\* active whatever the moisture and the water level are, and the pump goes
\* from active to inactive only in a call of process_sensor_data that finds
\* the run time elapsed or the system disabled.
C20_RunningPumpIgnoresSensors ==
    /\ [][(/\ ProcessStep
           /\ is_pump_active
           /\ SystemEnabled
           /\ now - pump_start_time < PUMP_RUN_TIME)
              => is_pump_active']_vars
    /\ [][(is_pump_active /\ ~is_pump_active')
              => /\ ProcessStep
                 /\ \/ ~SystemEnabled
                    \/ now - pump_start_time >= PUMP_RUN_TIME]_vars

\* C20's case: the pump is in the middle of a run, the latest reading shows
\* an empty tank, and the call has left the pump on.
C20_Witness ==
    /\ pc = "actuate"
    /\ is_pump_active /\ last_pump_state
    /\ SystemEnabled
    /\ current_sensor_data.raw_id # 0
    /\ current_sensor_data.water_level = FALSE
    /\ now - pump_start_time > 0
    /\ now - pump_start_time < PUMP_RUN_TIME

(* ----------------------- outputs at the end of a pass ------------------ *)
\* The pin level a command asks for.
LevelOf(state) == IF state THEN 1 ELSE 0

\* C18: when update_hardware_actuators has returned, the level last written
\* to PUMP_PIN (low before any write) is the pump command and the level
\* last written to LIGHT_PIN is the light command: what the pass decided,
\* also a stop by the switch or by the run timer, is on the pins before the
\* pass ends.
C18_OutputsFollowCommands ==
    pc = "delay"
        => /\ gpio_level[PUMP_PIN] = LevelOf(is_pump_active)
           /\ gpio_level[LIGHT_PIN] = LevelOf(is_light_active)

\* C18's case: the pass found the system switched off with pump and light
\* on, and has driven both pins low.
C18_Witness ==
    /\ pc = "delay"
    /\ ~SystemEnabled
    /\ gpio_writes = <<[pin |-> PUMP_PIN, level |-> 0],
                       [pin |-> LIGHT_PIN, level |-> 0]>>
    /\ gpio_level[PUMP_PIN] = 0 /\ gpio_level[LIGHT_PIN] = 0
    /\ current_time = last_pull_time

(* ------------------------ the pump always stops ------------------------ *)
\* The run time of the current run ends before the modelled clock does.
RunEndsInTime == pump_start_time + PUMP_RUN_TIME <= PumpTicks * Step

\* C19: the pump does not stay on for ever. While the loop keeps running and
\* the clock keeps advancing, a running pump is eventually off, whatever
\* the readings and the refreshes are; and a call of process_sensor_data
\* that finds the system enabled and at least the run time elapsed since the
\* start turns the pump off, so with the system enabled all along the pump
\* is off by the first pass at or after that time.
C19_PumpStopsEventually ==
    /\ (is_pump_active /\ RunEndsInTime) ~> ~is_pump_active
    /\ [][(/\ ProcessStep
           /\ is_pump_active
           /\ SystemEnabled
           /\ now - pump_start_time >= PUMP_RUN_TIME)
              => ~is_pump_active']_vars

\* C19's case: the soil is still dry and the tank still holds water, the
\* system is enabled, and the pass that found the run time elapsed has
\* ended with the pump off and its pin driven low.
C19_Witness ==
    /\ pc = "delay"
    /\ ~is_pump_active
    /\ gpio_writes = <<[pin |-> PUMP_PIN, level |-> 0]>>
    /\ SystemEnabled
    /\ SoilDry /\ current_sensor_data.water_level = TRUE
    /\ pump_stop_time = now
    /\ now - pump_start_time >= PUMP_RUN_TIME

(* ---------------------- cooldown while switched off -------------------- *)
\* C15: a call of process_sensor_data that finds the system disabled leaves
\* is_cooldown and cooldown_start_time as they are, and the time spent
\* disabled counts: a call that finds the system enabled and PUMP_COOLDOWN
\* elapsed since the cooldown started ends the cooldown, however recently
\* the system was enabled again.
C15_CooldownElapsesWhileDisabled ==
    /\ [][(ProcessStep /\ ~SystemEnabled)
              => UNCHANGED <<is_cooldown, cooldown_start_time>>]_vars
    /\ [][(/\ ProcessStep
           /\ SystemEnabled
           /\ current_sensor_data.raw_id # 0
           /\ is_cooldown
           /\ now - cooldown_start_time >= PUMP_COOLDOWN)
              => ~is_cooldown']_vars

\* C15's case: the cooldown started a pull interval ago or earlier and was
\* still on when this call began (the soil is dry, the tank holds water and
\* the system is enabled, yet the call did not start the pump), so every
\* call since PUMP_COOLDOWN elapsed found the system disabled; this one,
\* the first with the system enabled again, has ended the cooldown.
C15_Witness ==
    /\ pc = "actuate"
    /\ SystemEnabled
    /\ current_sensor_data.raw_id # 0
    /\ SoilDry /\ current_sensor_data.water_level = TRUE
    /\ ~is_pump_active
    /\ ~is_cooldown
    /\ cooldown_start_time # 0
    /\ now - cooldown_start_time >= PULL_INTERVAL

====
